---- MODULE Spec2Model ----
(***************************************************************************)
(* A model of CrawlerService.crawl() of crawlers-poc, in its two versions: *)
(*   "detail": src/src/crawlers/crawler.service.ts (listing pages, then    *)
(*             detail pages through pLimit(5), products and skus);         *)
(*   "enum":   src/unnamed/part_001 (listing pages only, Cloudflare        *)
(*             check, products only).                                      *)
(* The browser, the site and the file system are the environment: what an  *)
(* awaited call answers is chosen with \E at the step that awaits it.      *)
(***************************************************************************)
EXTENDS Integers, Sequences, FiniteSets, TLC

\* ---- bounds of the model -------------------------------------------------
\* totalPages (60 in crawler.service.ts, 5 in part_001): a run has one page
\* or TotalPages pages.
TotalPages == 2
\* Hrefs the listing grid holds in a run of one page.
MaxUrls == 6
\* Hrefs the listing grids hold, over all pages, in a run of several pages.
MaxPagedUrls == 3
\* Entries of the "variants" array of a product JSON.
MaxVariants == 2
\* li.grid__item elements of a listing page (enum version).
MaxItems == 2

\* ---- program constants ---------------------------------------------------
\* pLimit(5)
Concurrency == 5

VARIABLES
  variant,     \* which version of CrawlerService runs
  catalog,     \* input: the layout of the site
  totalPages,  \* this.totalPages
  pc,          \* position of crawl()
  pageNumber,  \* the loop variable
  browser,     \* "none" | "open" | "closed"
  units,       \* the current page's detailPromises, in productDetailUrls order
  products,    \* let products
  skus,        \* let skus
  discovered,  \* number of hrefs pushed so far, over all pages
  openCtx,     \* browser contexts created and not closed: the listing pages
               \* that own one, and how many belong to detail units
  orphaned,    \* the contexts that only browser.close() closed
  attempted,   \* history: page numbers whose fetch was started
  delays,      \* history: page numbers after which delay() ran
  saved,       \* history: files the persistence sink wrote
  returned,    \* <<>> or <<value crawl() resolved with>>
  urlPage,     \* history: urlPage[i] = listing page of the i-th href
  overtake,    \* history: in the current batch the second unit settled
               \* before the first
  parsedThrow  \* history: "extraction" or "close" when the last step was a
               \* unit throwing there after JSON.parse had succeeded, "none"
               \* otherwise

vars == <<variant, catalog, totalPages, pc, pageNumber, browser, units,
          products, skus, discovered, openCtx, orphaned, attempted, delays,
          saved, returned, urlPage, overtake, parsedThrow>>

\* ---- helpers -------------------------------------------------------------
Min(S) == CHOOSE x \in S : \A y \in S : x <= y

Max(S) == CHOOSE x \in S : \A y \in S : x >= y

\* uuidv4(): a value no other call returns; named here by the call that made
\* it (the ordinal of the unit and the position of the call inside the unit).
Uuid(no, k) == <<"uuid", no, k>>

NoContexts == [listing |-> {}, detail |-> 0]

\* browser.newContext() of a listing page answers.
OpenListing(ctx, p) == [ctx EXCEPT !.listing = @ \cup {p}]

\* ---- the site ------------------------------------------------------------
\* What handling a listing page can meet (crawler.service.ts 66-78): the
\* awaited call that rejects.
ListingFailures == {"newContext", "goto", "selector"}

\* part_001 38-71: the same, and page.close() or context.close() rejecting.
EnumFailures == ListingFailures \cup {"close"}

\* crawler.service.ts 147-149, 257-258: awaited browser calls that reject
\* once the unit has its context.
RenderFailures == {"goto", "close"}

\* crawler.service.ts 161-176: the three explicit throws.
ScriptFailures == {"noScript", "noMatch", "badJson"}

\* crawler.service.ts 181, 183, 224: product objects that parse and lack an
\* id, lack a description, or list a null variant.
DataFailures == {"noId", "noDescription", "nullVariant"}

PageKinds ==
  RenderFailures \cup ScriptFailures \cup DataFailures \cup {"valid"}

\* The catalog layouts. Layout c gives the product at URL u the shape
\* (u + c) modulo the number of shapes: shape 0 has no "variants" array
\* (absent or another type), shape k > 0 an array of k - 1 entries.
Layouts == {0, 1}

Shape(c, u) == (u + c) % (MaxVariants + 2)

\* crawler.service.ts 83-91: the i-th href pushed. In layout 1 the grid
\* repeats its first href as the second (nothing de-duplicates).
Href(c, i) == IF c = 1 /\ i = 2 THEN 1 ELSE i

\* productData.id of the product at URL u. In layout 1 the URLs 3 and 4 show
\* the same product.
ProductId(c, u) == IF c = 1 /\ u = 4 THEN 3 ELSE u

\* The detail page of URL u when the navigation meets kind k.
DetailPage(c, u, k) ==
  [kind |-> k,
   id |-> ProductId(c, u),
   hasId |-> k # "noId",
   hasDescription |-> k # "noDescription",
   hasList |-> (Shape(c, u) > 0 \/ k = "nullVariant"),
   n |-> IF Shape(c, u) > 0 THEN Shape(c, u) - 1 ELSE 0,
   nullEntry |-> k = "nullVariant"]

\* ---- fetchProductDetail --------------------------------------------------
\* crawler.service.ts 179-187: the Product, or <<>> when line 181 throws (no
\* id) or line 183 does (no description, with a cheerio whose load() rejects
\* undefined: strict).
BuildProduct(no, d, strict) ==
  IF ~d.hasId \/ (~d.hasDescription /\ strict)
    THEN <<>>
    ELSE <<[id |-> Uuid(no, 0), code |-> d.id]>>

BuildSkusWrongOwner(no, pid, d) ==
  IF ~d.hasList THEN << <<>> >>
  ELSE IF d.nullEntry THEN <<>>
  ELSE <<[k \in 1..d.n |-> [id |-> Uuid(no, k), productId |-> Uuid(no, k),
                            code |-> <<d.id, k>>]]>>

\* crawler.service.ts 220-255: <<the Skus>>, one per entry of
\* productData.variants and none when variants is absent or no array; <<>>
\* when line 224 throws on a null entry.
BuildSkus(no, pid, d) ==
  IF ~d.hasList THEN << <<>> >>
  ELSE IF d.nullEntry THEN <<>>
  ELSE <<[k \in 1..d.n |-> [id |-> Uuid(no, k), productId |-> pid,
                            code |-> <<d.id, k>>]]>>

\* crawler.service.ts 152-255 and 259: <<>> when the function throws,
\* <<{product, skus}>> otherwise.
ExtractDetail(no, d, strict) ==
  LET built == BuildProduct(no, d, strict)
      variants == BuildSkus(no, built[1].id, d)
  IN IF d.kind \in ScriptFailures THEN <<>>
     ELSE IF built = <<>> THEN <<>>
     ELSE IF variants = <<>> THEN <<>>
     ELSE <<[product |-> built[1], skus |-> variants[1]]>>

\* What fetchProductDetail gives on a page of kind k: res is <<>> when it
\* throws, and thrown tells where a throw that came after JSON.parse (173)
\* succeeded was raised: "extraction" while the product and the skus were
\* built (181-224), "close" by page.close() or context.close() once they
\* were built (257-258), "none" when nothing was thrown after the parse.
FetchOutcome(no, d, strict) ==
  LET res == IF d.kind \in RenderFailures THEN <<>>
                                           ELSE ExtractDetail(no, d, strict)
  IN [res |-> res,
      thrown |-> IF res # <<>> THEN "none"
                 ELSE IF d.kind \in DataFailures THEN "extraction"
                 ELSE IF d.kind = "close" THEN "close"
                 ELSE "none"]

\* ---- p-limit -------------------------------------------------------------
\* Units whose function was called and has not settled: "starting" awaits
\* browser.newContext(), "loading" has its context.
InFlight(us) == {i \in DOMAIN us : us[i].st \in {"starting", "loading"}}

Queued(us) == {i \in DOMAIN us : us[i].st = "queued"}

Settled(us) == {i \in DOMAIN us : us[i].st \in {"ok", "failed"}}

StartNextUnbounded(us) ==
  IF Queued(us) # {}
    THEN [us EXCEPT ![Min(Queued(us))].st = "starting"]
    ELSE us

StartNextLifo(us) ==
  IF Queued(us) # {} /\ Cardinality(InFlight(us)) < Concurrency
    THEN [us EXCEPT ![Max(Queued(us))].st = "starting"]
    ELSE us

\* p-limit: the head of the queue is started while fewer than `concurrency`
\* functions are active.
StartNext(us) ==
  IF Queued(us) # {} /\ Cardinality(InFlight(us)) < Concurrency
    THEN [us EXCEPT ![Min(Queued(us))].st = "starting"]
    ELSE us

RECURSIVE StartMany(_, _)
StartMany(us, k) == IF k = 0 THEN us ELSE StartMany(StartNext(us), k - 1)

\* crawler.service.ts 95-103: productDetailUrls.map(url => limit(...)): every
\* href is enqueued, and each enqueue starts the head of the queue if a permit
\* is free.
Dispatch(c, first, n) ==
  StartMany([i \in 1..n |-> [no |-> first + i - 1,
                             url |-> Href(c, first + i - 1),
                             st |-> "queued",
                             result |-> <<>>]], n)

SettleNoReleaseOnFailure(us, i, res) ==
  IF res = <<>>
    THEN [us EXCEPT ![i].st = "failed", ![i].result = res]
    ELSE StartNext([us EXCEPT ![i].st = "ok", ![i].result = res])

\* crawler.service.ts 97-102 and p-limit's next(): the unit's promise resolves
\* with the result, or with null after .catch; the permit is released and the
\* head of the queue starts.
Settle(us, i, res) ==
  StartNext([us EXCEPT ![i].st = IF res = <<>> THEN "failed" ELSE "ok",
                       ![i].result = res])

AnySettled(us) == us = <<>> \/ Settled(us) # {}

\* crawler.service.ts 104: Promise.all(detailPromises) resolves when every
\* unit has resolved.
AllSettled(us) == \A i \in DOMAIN us : us[i].st \in {"ok", "failed"}

\* ---- aggregation ---------------------------------------------------------
RECURSIVE CollectProducts(_, _)
CollectProducts(us, i) ==
  IF i > Len(us) THEN <<>>
  ELSE (IF us[i].result # <<>> THEN <<us[i].result[1].product>> ELSE <<>>)
       \o CollectProducts(us, i + 1)

RECURSIVE CollectSkus(_, _)
CollectSkus(us, i) ==
  IF i > Len(us) THEN <<>>
  ELSE (IF us[i].result # <<>> THEN us[i].result[1].skus ELSE <<>>)
       \o CollectSkus(us, i + 1)

RECURSIVE Reverse(_)
Reverse(s) == IF s = <<>> THEN <<>> ELSE Reverse(Tail(s)) \o <<Head(s)>>

PageResultsReversed(us) ==
  [products |-> Reverse(CollectProducts(us, 1)),
   skus |-> Reverse(CollectSkus(us, 1))]

\* crawler.service.ts 104-110: results is in detailPromises order; every
\* non-null result is pushed.
PageResults(us) ==
  [products |-> CollectProducts(us, 1), skus |-> CollectSkus(us, 1)]

\* Hrefs a run may push in all: the bound on the listing grids.
UrlBudget == IF totalPages = 1 THEN MaxUrls ELSE MaxPagedUrls

\* ---- the page loop -------------------------------------------------------
\* crawler.service.ts 116-119 / part_001 81-84: the delay, then the next
\* iteration; after the last page the loop ends.
AfterPage(p) == IF p < totalPages THEN "delay" ELSE "closeBrowser"

OnPageErrorRethrow(p) == "aborted"

\* crawler.service.ts 113-115 / part_001 77-79: the catch block logs.
OnPageError(p) == AfterPage(p)

\* part_001 60: "continue" goes to pageNumber++ and the loop test.
AfterContinue(p) == IF p < totalPages THEN "listing" ELSE "closeBrowser"

SaveProductsOnly(ps, ss) == <<[file |-> "products", records |-> ps]>>

\* crawler.service.ts 121-122: saveProducts(products); saveSkus(skus).
SaveAll(ps, ss) ==
  <<[file |-> "products", records |-> ps], [file |-> "skus", records |-> ss]>>

\* part_001 98-126: one Product per li.grid__item that has a div.product-card
\* and a data-sku value.
ItemKinds == {"ok", "noCard", "noSku"}

RECURSIVE ParseProducts(_, _, _)
ParseProducts(p, items, i) ==
  IF i > Len(items) THEN <<>>
  ELSE (IF items[i] = "ok"
          THEN <<[id |-> Uuid(<<p, i>>, 0), code |-> <<p, i>>]>>
          ELSE <<>>)
       \o ParseProducts(p, items, i + 1)

Init ==
  /\ variant \in {"detail", "enum"}
  /\ catalog \in IF variant = "detail" THEN Layouts ELSE {0}
  /\ totalPages \in {1, TotalPages}
  /\ pc = "launch"
  /\ pageNumber = 1
  /\ browser = "none"
  /\ units = <<>>
  /\ products = <<>>
  /\ skus = <<>>
  /\ discovered = 0
  /\ openCtx = NoContexts
  /\ orphaned = NoContexts
  /\ attempted = <<>>
  /\ delays = <<>>
  /\ saved = <<>>
  /\ returned = <<>>
  /\ urlPage = <<>>
  /\ overtake = FALSE
  /\ parsedThrow = "none"

\* crawler.service.ts 58 / part_001 30: chromium.launch; a rejection rejects
\* crawl().
Launch ==
  /\ pc = "launch"
  /\ \E ok \in BOOLEAN :
       /\ pc' = IF ok THEN "listing" ELSE "aborted"
       /\ browser' = IF ok THEN "open" ELSE "none"
  /\ parsedThrow' = "none"
  /\ UNCHANGED <<variant, catalog, totalPages, pageNumber, units, products,
                 skus,
                 discovered, openCtx, orphaned, attempted, delays, saved,
                 returned, urlPage, overtake>>

\* crawler.service.ts 62-78 failing: newContext, goto or waitForSelector
\* rejects and the catch block logs; a context that was created stays open.
ListingFails ==
  /\ variant = "detail"
  /\ pc = "listing"
  /\ \E f \in ListingFailures :
       /\ attempted' = Append(attempted, pageNumber)
       /\ openCtx' = IF f = "newContext" THEN openCtx
                                         ELSE OpenListing(openCtx, pageNumber)
       /\ pc' = OnPageError(pageNumber)
  /\ units' = <<>>
  /\ overtake' = FALSE
  /\ parsedThrow' = "none"
  /\ UNCHANGED <<variant, catalog, totalPages, pageNumber, browser, products,
                 skus,
                 discovered, orphaned, delays, saved, returned, urlPage>>

\* crawler.service.ts 62-103: the listing is rendered, its n hrefs are
\* collected and dispatched through the limiter.
ListingOk ==
  /\ variant = "detail"
  /\ pc = "listing"
  /\ \E n \in 0..(UrlBudget - discovered) :
       /\ units' = Dispatch(catalog, discovered + 1, n)
       /\ discovered' = discovered + n
       /\ urlPage' = urlPage \o [i \in 1..n |-> pageNumber]
  /\ attempted' = Append(attempted, pageNumber)
  /\ openCtx' = OpenListing(openCtx, pageNumber)
  /\ overtake' = FALSE
  /\ parsedThrow' = "none"
  /\ pc' = "await"
  /\ UNCHANGED <<variant, catalog, totalPages, pageNumber, browser, products,
                 skus,
                 orphaned, delays, saved, returned>>

\* History: the second unit of the batch settles while the first one is
\* still in flight.
NoteOvertake(i) == overtake \/ (i = 2 /\ 1 \in InFlight(units))

\* crawler.service.ts 138-146 for unit i: browser.newContext() answers with
\* the unit's context, or rejects and .catch (97-101) settles the unit with
\* null.
NewDetailContext(i) ==
  /\ pc = "await"
  /\ i \in DOMAIN units
  /\ units[i].st = "starting"
  /\ \E ok \in BOOLEAN :
       IF ok
         THEN /\ units' = [units EXCEPT ![i].st = "loading"]
              /\ openCtx' = [openCtx EXCEPT !.detail = @ + 1]
              /\ overtake' = overtake
         ELSE /\ units' = Settle(units, i, <<>>)
              /\ openCtx' = openCtx
              /\ overtake' = NoteOvertake(i)
  /\ parsedThrow' = "none"
  /\ UNCHANGED <<variant, catalog, totalPages, pc, pageNumber, browser,
                 products, skus,
                 discovered, orphaned, attempted, delays, saved, returned,
                 urlPage>>

\* crawler.service.ts 147-259 for unit i, settled through lines 97-102: the
\* navigation, the extraction and the two close() calls. On success the
\* context is closed and the unit resolves with {product, skus}; a throw
\* leaves the context open and .catch resolves the unit with null.
FetchProductDetail(i) ==
  /\ pc = "await"
  /\ i \in DOMAIN units
  /\ units[i].st = "loading"
  /\ \E o \in {FetchOutcome(units[i].no,
                            DetailPage(catalog, units[i].url, k), strict) :
                 k \in PageKinds, strict \in BOOLEAN} :
       /\ units' = Settle(units, i, o.res)
       /\ openCtx' = IF o.res = <<>> THEN openCtx
                     ELSE [openCtx EXCEPT !.detail = @ - 1]
       /\ parsedThrow' = o.thrown
  /\ overtake' = NoteOvertake(i)
  /\ UNCHANGED <<variant, catalog, totalPages, pc, pageNumber, browser,
                 products, skus,
                 discovered, orphaned, attempted, delays, saved, returned,
                 urlPage>>

\* crawler.service.ts 104-110: Promise.all resolves, the results are pushed.
Aggregate ==
  /\ pc = "await"
  /\ AllSettled(units)
  /\ products' = products \o PageResults(units).products
  /\ skus' = skus \o PageResults(units).skus
  /\ pc' = "closeListing"
  /\ parsedThrow' = "none"
  /\ UNCHANGED <<variant, catalog, totalPages, pageNumber, browser, units,
                 discovered,
                 openCtx, orphaned, attempted, delays, saved, returned,
                 urlPage, overtake>>

\* crawler.service.ts 111-116: the listing's page and context are closed; a
\* rejecting close() goes to the catch block with the context still open.
CloseListing ==
  /\ pc = "closeListing"
  /\ \E ok \in BOOLEAN :
       IF ok
         THEN /\ openCtx' = [openCtx EXCEPT !.listing = @ \ {pageNumber}]
              /\ pc' = AfterPage(pageNumber)
         ELSE /\ openCtx' = openCtx
              /\ pc' = OnPageError(pageNumber)
  /\ parsedThrow' = "none"
  /\ UNCHANGED <<variant, catalog, totalPages, pageNumber, browser, units,
                 products, skus,
                 discovered, orphaned, attempted, delays, saved, returned,
                 urlPage, overtake>>

\* crawler.service.ts 116-118 / part_001 81-83: await this.delay(delayMs),
\* then pageNumber++.
Delay ==
  /\ pc = "delay"
  /\ delays' = Append(delays, pageNumber)
  /\ pageNumber' = pageNumber + 1
  /\ pc' = "listing"
  /\ parsedThrow' = "none"
  /\ UNCHANGED <<variant, catalog, totalPages, browser, units, products, skus,
                 discovered,
                 openCtx, orphaned, attempted, saved, returned, urlPage,
                 overtake>>

\* part_001 33-79: an awaited call of the try block rejects (also a close()
\* of the blocked or of the rendered page); the catch block logs.
EnumPageFails ==
  /\ variant = "enum"
  /\ pc = "listing"
  /\ \E f \in EnumFailures :
       /\ attempted' = Append(attempted, pageNumber)
       /\ openCtx' = IF f = "newContext" THEN openCtx
                                         ELSE OpenListing(openCtx, pageNumber)
       /\ pc' = OnPageError(pageNumber)
  /\ parsedThrow' = "none"
  /\ UNCHANGED <<variant, catalog, totalPages, pageNumber, browser, units,
                 products, skus,
                 discovered, orphaned, delays, saved, returned, urlPage,
                 overtake>>

\* part_001 53-61: the title shows a Cloudflare block; page and context are
\* closed and the loop continues.
EnumPageBlocked ==
  /\ variant = "enum"
  /\ pc = "listing"
  /\ attempted' = Append(attempted, pageNumber)
  /\ pc' = AfterContinue(pageNumber)
  /\ pageNumber' = pageNumber + 1
  /\ parsedThrow' = "none"
  /\ UNCHANGED <<variant, catalog, totalPages, browser, units, products, skus,
                 discovered,
                 openCtx, orphaned, delays, saved, returned, urlPage,
                 overtake>>

\* part_001 63-76: the listing is rendered, page and context are closed, the
\* items are parsed and concatenated.
EnumPageOk ==
  /\ variant = "enum"
  /\ pc = "listing"
  /\ \E n \in 0..MaxItems : \E items \in [1..n -> ItemKinds] :
       products' = products \o ParseProducts(pageNumber, items, 1)
  /\ attempted' = Append(attempted, pageNumber)
  /\ pc' = AfterPage(pageNumber)
  /\ parsedThrow' = "none"
  /\ UNCHANGED <<variant, catalog, totalPages, pageNumber, browser, units,
                 skus,
                 discovered, openCtx, orphaned, delays, saved, returned,
                 urlPage, overtake>>

\* crawler.service.ts 120 / part_001 86: browser.close() closes whatever
\* context is still open; its rejection rejects crawl().
CloseBrowser ==
  /\ pc = "closeBrowser"
  /\ \E ok \in BOOLEAN :
       IF ok
         THEN /\ browser' = "closed"
              /\ orphaned' = openCtx
              /\ openCtx' = NoContexts
              /\ pc' = "save"
         ELSE /\ pc' = "aborted"
              /\ UNCHANGED <<browser, orphaned, openCtx>>
  /\ parsedThrow' = "none"
  /\ UNCHANGED <<variant, catalog, totalPages, pageNumber, units, products,
                 skus,
                 discovered, attempted, delays, saved, returned, urlPage,
                 overtake>>

\* crawler.service.ts 121-129: saveProducts, saveSkus, return {products,
\* skus}; a sink that throws (mkdirSync, writeFileSync) rejects crawl().
Save ==
  /\ variant = "detail"
  /\ pc = "save"
  /\ \E thrower \in {"none", "saveProducts", "saveSkus"} :
       /\ saved' = saved \o
            SubSeq(SaveAll(products, skus), 1,
                   CASE thrower = "none" -> Len(SaveAll(products, skus))
                     [] thrower = "saveProducts" -> 0
                     [] thrower = "saveSkus" -> 1)
       /\ returned' = IF thrower = "none"
                        THEN <<[products |-> products, skus |-> skus]>>
                        ELSE <<>>
       /\ pc' = IF thrower = "none" THEN "done" ELSE "aborted"
  /\ parsedThrow' = "none"
  /\ UNCHANGED <<variant, catalog, totalPages, pageNumber, browser, units,
                 products, skus,
                 discovered, openCtx, orphaned, attempted, delays, urlPage,
                 overtake>>

\* part_001 88-89 and 128-144: saveProducts, return products. saveProducts
\* writes the file (138) and reads it back (142): mkdirSync or writeFileSync
\* throwing leaves nothing written, readFileSync throwing leaves the file
\* written; either rejects crawl().
EnumSave ==
  /\ variant = "enum"
  /\ pc = "save"
  /\ \E thrower \in {"none", "write", "read"} :
       /\ saved' = IF thrower = "write"
                     THEN saved
                     ELSE Append(saved, [file |-> "products",
                                         records |-> products])
       /\ returned' = IF thrower = "none"
                        THEN <<[products |-> products, skus |-> <<>>]>>
                        ELSE <<>>
       /\ pc' = IF thrower = "none" THEN "done" ELSE "aborted"
  /\ parsedThrow' = "none"
  /\ UNCHANGED <<variant, catalog, totalPages, pageNumber, browser, units,
                 products, skus,
                 discovered, openCtx, orphaned, attempted, delays, urlPage,
                 overtake>>

Next ==
  \/ Launch
  \/ ListingFails
  \/ ListingOk
  \/ \E i \in 1..MaxUrls : NewDetailContext(i)
  \/ \E i \in 1..MaxUrls : FetchProductDetail(i)
  \/ Aggregate
  \/ CloseListing
  \/ Delay
  \/ EnumPageFails
  \/ EnumPageBlocked
  \/ EnumPageOk
  \/ CloseBrowser
  \/ Save
  \/ EnumSave

Spec == Init /\ [][Next]_vars

\* ---- properties -------------------------------------------------------
\* Position in ps of the product of the unit with ordinal no (0: none).
ProductIndex(ps, no) ==
  IF \E a \in 1..Len(ps) : ps[a].id[2] = no
    THEN Min({a \in 1..Len(ps) : ps[a].id[2] = no})
    ELSE 0

\* Positions in ss of the skus of the unit with ordinal no.
SkusOf(ss, no) == {a \in 1..Len(ss) : ss[a].id[2] = no}

\* Number of entries of the "variants" array of URL u (0 when it is absent or
\* no array).
VariantCount(c, u) == IF Shape(c, u) = 0 THEN 0 ELSE Shape(c, u) - 1

\* What a result of fetchProductDetail for URL u must be: one Product and one
\* Sku per variant, each with the Product's id.
OneProductWithItsSkus(r, c, u) ==
  /\ Len(r) = 1
  /\ Len(r[1].skus) = VariantCount(c, u)
  /\ \A k \in 1..Len(r[1].skus) : r[1].skus[k].productId = r[1].product.id

\* C1: in every state at most Concurrency (5) calls of fetchProductDetail have
\* started and not completed; a unit dispatched beyond that stays queued.
C1_AtMostFiveInFlight == Cardinality(InFlight(units)) <= Concurrency

\* C1 witness: five units in flight, one of them with its context already
\* open, and a sixth one waiting.
C1_Witness ==
  /\ pc = "await"
  /\ Cardinality(InFlight(units)) = Concurrency
  /\ \E i \in DOMAIN units : units[i].st = "loading"
  /\ Queued(units) # {}

\* C2 as claimed: a page-level failure never aborts the run: pages are
\* attempted once each in increasing order, the run can always go on until it
\* ends, it is done only after page totalPages, and the only rejection of
\* crawl() is the one of the launch.
C2_OnlyLaunchIsFatal ==
  /\ attempted = [i \in 1..Len(attempted) |-> i]
  /\ pc = "done" => Len(attempted) = totalPages
  /\ pc = "aborted" => (browser = "none" /\ attempted = <<>>)
  /\ pc \notin {"done", "aborted"} => ENABLED Next

\* C2 as amended: a page-level failure never aborts the run: pages are
\* attempted once each in increasing order up to totalPages whatever pages
\* fail; crawl() rejects only at the launch, before any page, or after the
\* last page has been handled (browser.close() or the sink throwing).
C2_PageFailureNeverAborts ==
  /\ attempted = [i \in 1..Len(attempted) |-> i]
  /\ pc = "done" => Len(attempted) = totalPages
  /\ pc = "aborted" =>
       \/ browser = "none" /\ attempted = <<>>
       \/ browser # "none" /\ Len(attempted) = totalPages
            /\ pageNumber >= totalPages
  /\ pc \notin {"done", "aborted"} => ENABLED Next

\* C2 witness: a finished run of several pages in which every page failed.
C2_Witness ==
  /\ pc = "done"
  /\ totalPages > 1
  /\ orphaned.listing = 1..totalPages
  /\ Len(attempted) = totalPages

\* C3: a failing unit is isolated: its permit is released (a unit waits only
\* while Concurrency others are in flight), and when the batch is aggregated
\* every unit has settled, a failed unit has no product and no sku, and every
\* other unit has its product and all its skus.
C3_FailedUnitIsolated ==
  /\ (pc = "await" /\ Queued(units) # {})
       => Cardinality(InFlight(units)) = Concurrency
  /\ pc = "closeListing" =>
       \A i \in DOMAIN units :
         /\ units[i].st \in {"ok", "failed"}
         /\ units[i].st = "failed" =>
              /\ ProductIndex(products, units[i].no) = 0
              /\ SkusOf(skus, units[i].no) = {}
         /\ units[i].st = "ok" =>
              /\ Cardinality({a \in 1..Len(products) :
                                products[a].id[2] = units[i].no}) = 1
              /\ Cardinality(SkusOf(skus, units[i].no))
                   = VariantCount(catalog, units[i].url)

\* C3 witness: the first unit failed with its context open and the unit
\* queued behind the first five made it into the result with a sku.
C3_Witness ==
  /\ pc = "closeListing"
  /\ Len(units) > Concurrency
  /\ units[1].st = "failed"
  /\ openCtx.detail > 0
  /\ units[Len(units)].st = "ok"
  /\ SkusOf(skus, units[Len(units)].no) # {}

\* C4: products and skus are in discovery order (units are numbered in the
\* order their hrefs were discovered, over all pages), in every state and in
\* the value returned, whatever order the units completed in.
C4_DiscoveryOrder ==
  variant = "detail" =>
    /\ \A a, b \in 1..Len(products) :
         a < b => products[a].id[2] < products[b].id[2]
    /\ \A a, b \in 1..Len(skus) :
         a < b => (\/ skus[a].id[2] < skus[b].id[2]
                   \/ /\ skus[a].id[2] = skus[b].id[2]
                      /\ skus[a].id[3] < skus[b].id[3])
    /\ returned # <<>> =>
         (returned[1].products = products /\ returned[1].skus = skus)

\* C4 witness: the second unit settled before the first, both succeeded, and
\* the batch has been aggregated.
C4_Witness ==
  /\ pc = "closeListing"
  /\ overtake
  /\ units[1].st = "ok"
  /\ units[2].st = "ok"
  /\ ProductIndex(products, units[1].no) > 0
  /\ ProductIndex(products, units[2].no) > 0

\* C5 as claimed: results are appended in the order the units completed, so
\* when the second unit completed before the first its product comes first.
C5_AggregationFollowsCompletion ==
  (/\ pc = "closeListing"
   /\ overtake
   /\ units[1].st = "ok"
   /\ units[2].st = "ok")
    => ProductIndex(products, units[2].no)
         < ProductIndex(products, units[1].no)

\* C5 as amended: within a batch the units start in discovery order and may
\* complete out of order, and their results are appended in discovery order
\* whatever order they completed in: once the batch is aggregated, for every
\* two units of it that gave a result, the product and the skus of the one
\* discovered first come before those of the other.
C5_StartAndAppendInDiscoveryOrder ==
  /\ \A i, j \in DOMAIN units :
       (i < j /\ units[j].st # "queued") => units[i].st # "queued"
  /\ pc # "await" =>
       \A i, j \in DOMAIN units :
         (i < j /\ units[i].st = "ok" /\ units[j].st = "ok") =>
           /\ ProductIndex(products, units[i].no) > 0
           /\ ProductIndex(products, units[i].no)
                < ProductIndex(products, units[j].no)
           /\ \A x \in SkusOf(skus, units[i].no) :
                \A y \in SkusOf(skus, units[j].no) : x < y

\* C5 witness: a batch larger than the limiter, aggregated after the second
\* unit completed before the first, both with skus in the result.
C5_Witness ==
  /\ pc = "closeListing"
  /\ Len(units) > Concurrency
  /\ overtake
  /\ units[1].st = "ok"
  /\ units[2].st = "ok"
  /\ SkusOf(skus, units[1].no) # {}
  /\ SkusOf(skus, units[2].no) # {}

\* C6: no cross-page concurrency: outside the batch no unit is queued or in
\* flight, and every result of a page precedes every result of a later page.
C6_NoCrossPageConcurrency ==
  /\ pc # "await" => (InFlight(units) = {} /\ Queued(units) = {})
  /\ variant = "detail" =>
       /\ \A a, b \in 1..Len(products) :
            a < b => urlPage[products[a].id[2]] <= urlPage[products[b].id[2]]
       /\ \A a, b \in 1..Len(skus) :
            a < b => urlPage[skus[a].id[2]] <= urlPage[skus[b].id[2]]

\* C6 witness: the fetch of page 2 is about to begin after a batch of page 1
\* in which a unit failed and another gave a product.
C6_Witness ==
  /\ pc = "listing"
  /\ pageNumber = 2
  /\ \E i \in DOMAIN units : units[i].st = "failed"
  /\ \E i \in DOMAIN units : units[i].st = "ok"
  /\ products # <<>>

\* C7: every context opened for a listing or a detail fetch is explicitly
\* closed after use: none is open once its page has been handled, and none is
\* left for browser.close() to close.
C7_EveryContextClosed ==
  /\ pc \in {"listing", "delay", "closeBrowser"} => openCtx = NoContexts
  /\ pc \in {"save", "done"} => orphaned = NoContexts

\* C8: exactly one delay after every page but the last, whatever happened to
\* the page: when page p is requested the delays so far are those after pages
\* 1..p-1, and after the loop those after pages 1..totalPages-1.
C8_DelayBetweenPages ==
  /\ pc = "listing" => delays = [i \in 1..(pageNumber - 1) |-> i]
  /\ pc \in {"closeBrowser", "save", "done"}
       => delays = [i \in 1..(totalPages - 1) |-> i]

\* C9 as claimed: every run that got past the launch invokes the sink once
\* for products and once for skus, only after the last page and all its units
\* have been handled, with the collections crawl() returns: nothing is saved
\* or returned before the end, and the run ends having saved both.
C9_EveryRunSavesBoth ==
  variant = "detail" =>
    /\ pc \notin {"done", "aborted"} => (saved = <<>> /\ returned = <<>>)
    /\ (pc \in {"done", "aborted"} /\ browser # "none") =>
         /\ Len(attempted) = totalPages
         /\ AllSettled(units)
         /\ returned = <<[products |-> products, skus |-> skus]>>
         /\ saved = <<[file |-> "products", records |-> returned[1].products],
                      [file |-> "skus", records |-> returned[1].skus]>>

\* C9 as amended: every run of crawl() that returns has invoked the sink once
\* for products and then once for skus, only after the last page and all its
\* units were handled, with the collections it returns; a run that rejects
\* has saved nothing, or the products alone after the last page.
C9_SavedOnceAtEnd ==
  variant = "detail" =>
    /\ pc \notin {"done", "aborted"} => (saved = <<>> /\ returned = <<>>)
    /\ pc = "done" =>
         /\ Len(attempted) = totalPages
         /\ AllSettled(units)
         /\ returned = <<[products |-> products, skus |-> skus]>>
         /\ saved = <<[file |-> "products", records |-> returned[1].products],
                      [file |-> "skus", records |-> returned[1].skus]>>
    /\ pc = "aborted" =>
         /\ returned = <<>>
         /\ \/ saved = <<>>
            \/ /\ saved = <<[file |-> "products", records |-> products]>>
               /\ Len(attempted) = totalPages
               /\ AllSettled(units)

\* C9 witness: a finished run that saved a product and a sku.
C9_Witness ==
  /\ variant = "detail"
  /\ pc = "done"
  /\ Len(saved) = 2
  /\ saved[1].records # <<>>
  /\ saved[2].records # <<>>

\* C10 as claimed: a detail page whose product JSON parses gives one Product
\* and one Sku per variant with the Product's id: no unit throws while it
\* builds them once JSON.parse has succeeded, every result has that form,
\* and every Sku aggregated has the id of exactly one aggregated Product.
C10_ValidJsonGivesProductAndSkus ==
  variant = "detail" =>
    /\ parsedThrow # "extraction"
    /\ \A i \in DOMAIN units :
         units[i].result # <<>> =>
           OneProductWithItsSkus(units[i].result, catalog, units[i].url)
    /\ \A k \in 1..Len(skus) :
         Cardinality({a \in 1..Len(products) :
                        products[a].id = skus[k].productId}) = 1

\* C10 as amended: a detail page whose product JSON parses to an object with
\* an id, a description and N non-null variants (N = 0 when the list is
\* absent or no array) gives one Product and N Skus with the Product's id,
\* returned unless page.close() or context.close() then rejects; every
\* result returned has that form, and every Sku aggregated or returned has
\* the id of exactly one aggregated Product.
C10_SkusBelongToTheirProduct ==
  variant = "detail" =>
    /\ \A i \in DOMAIN units : \A strict \in BOOLEAN :
         OneProductWithItsSkus(
           ExtractDetail(units[i].no,
                         DetailPage(catalog, units[i].url, "valid"), strict),
           catalog, units[i].url)
    /\ \A i \in DOMAIN units :
         units[i].result # <<>> =>
           OneProductWithItsSkus(units[i].result, catalog, units[i].url)
    /\ \A k \in 1..Len(skus) :
         Cardinality({a \in 1..Len(products) :
                        products[a].id = skus[k].productId}) = 1

\* C10 witness: the returned collections hold two products, one of them with
\* MaxVariants skus.
C10_Witness ==
  /\ pc = "done"
  /\ Len(returned[1].products) >= 2
  /\ \E a \in 1..Len(returned[1].products) :
       Cardinality({k \in 1..Len(returned[1].skus) :
                      returned[1].skus[k].productId
                        = returned[1].products[a].id}) = MaxVariants
====
